---- MODULE Spec2Model ----
(***************************************************************************)
(* PURReaderControl: the reader host protocol.                             *)
(*   src/purreader/message.py  PURPacket: createMsg / parseMsg / checksum  *)
(*   src/purreader/reader.py   PURReader: send / checkResp / getParam /    *)
(*                             parseTagreports                             *)
(* Bytes are integers 0..255, byte strings are sequences of bytes.         *)
(* A raised Python exception is an outcome record whose err field holds    *)
(* the exception's class and message; err = "ok" is a normal return.       *)
(***************************************************************************)
EXTENDS Integers, Sequences, FiniteSets, TLC

VARIABLES
    \* ---- PURPacket under construction (message.py)
    pc,         \* position of the codec run: "new", "wire", "done"
    cmdBytes,   \* command bytes handed to PURPacket(cmdBytes, pldBytes)
    pldBytes,   \* payload bytes handed to PURPacket(cmdBytes, pldBytes)
    msgBytes,   \* the message bytes on the wire
    tampered,   \* whether the wire bytes were altered after createMsg
    packet,     \* outcome of PURPacket(msgBytes=msgBytes)
    \* ---- PURReader and its serial device (reader.py)
    inWaiting,  \* bytes in the serial input buffer (self.dev.in_waiting)
    inFrames,   \* what the reader wrote into inWaiting, piece by piece
    nEmit,      \* number of pieces the reader has written so far
    written,    \* last message written by self.dev.write
    op,         \* last operation called: "none", "send", "getParam"
    check,      \* the check argument of the last send
    respBytes,  \* the bytes the last send read
    respFrames, \* the pieces those bytes were written as
    result,     \* outcome of the last operation
    \* ---- parseTagreports (reader.py)
    recPkgs,    \* payloads of the packets handed to parseTagreports
    tagResult   \* outcome of parseTagreports(recPkgs)

codecVars == <<pc, cmdBytes, pldBytes, msgBytes, tampered, packet>>
readerVars == <<inWaiting, inFrames, nEmit, written, op, check, respBytes, respFrames, result>>
tagVars == <<recPkgs, tagResult>>
vars == <<codecVars, readerVars, tagVars>>

(***************************************************************************)
(* Bounds of the model.                                                    *)
(***************************************************************************)
MaxPld == 2
MaxEmit == 2
MaxPkgs == 2
MaxTags == 2

(***************************************************************************)
(* Python helpers: slicing, min, byte arithmetic.                          *)
(***************************************************************************)
Min(a, b) == IF a < b THEN a ELSE b

\* s[:n]
Take(s, n) == SubSeq(s, 1, Min(n, Len(s)))

\* s[n:]
Drop(s, n) == SubSeq(s, n + 1, Len(s))

SeqsUpTo(S, n) == UNION {[1..k -> S] : k \in 0..n}

ByteBits == 8

RECURSIVE BitXor(_, _, _)
BitXor(a, b, n) ==
    IF n = 0 THEN 0
    ELSE (((a % 2) + (b % 2)) % 2) + (2 * BitXor(a \div 2, b \div 2, n - 1))

\* a ^ b on bytes, tabulated
XorTable == [a \in 0..255 |-> [b \in 0..255 |-> BitXor(a, b, ByteBits)]]

Xor(a, b) == XorTable[a][b]

(***************************************************************************)
(* message.py: PURPacket                                                   *)
(***************************************************************************)
START == <<82, 70, 69>>     \* b'RFE'
CMD_START == 1
LEN_START == 2
PLD_START == 3
CHK_START == 4

Raise(e) == [err |-> e, cmdBytes |-> <<>>, pldBytes |-> <<>>]
Return(c, p) == [err |-> "ok", cmdBytes |-> c, pldBytes |-> p]

\* checksum = msgBytes[0]; for byte in msgBytes[1:]: checksum ^= byte
calcChecksum(m) ==
    LET RECURSIVE Fold(_, _)
        Fold(acc, rest) == IF rest = <<>> THEN acc ELSE Fold(Xor(acc, Head(rest)), Tail(rest))
    IN Fold(Head(m), Tail(m))

createMsg_ChecksumBeforeMarker(c, p) ==
    LET body == START \o <<CMD_START>> \o c \o <<LEN_START>> \o <<Len(p)>>
                \o (IF p # <<>> THEN <<PLD_START>> \o p ELSE <<>>)
    IN body \o <<CHK_START>> \o <<calcChecksum(body)>>

\* bytes([len(pldBytes)]) raises ValueError above 255; the callers of this
\* operator keep Len(p) <= 255.
createMsg(c, p) ==
    LET body == START \o <<CMD_START>> \o c \o <<LEN_START>> \o <<Len(p)>>
                \o (IF p # <<>> THEN <<PLD_START>> \o p ELSE <<>>)
                \o <<CHK_START>>
    IN body \o <<calcChecksum(body)>>

parseMsg_KeepsPayloadMarker(m) ==
    IF Len(m) < 8 THEN Raise("SyntaxError: Message too short")
    ELSE IF calcChecksum(m) # 0 THEN Raise("ValueError: Wrong checksum")
    ELSE IF Take(m, 4) # START \o <<CMD_START>> THEN Raise("SyntaxError: Wrong message start")
    ELSE LET m1 == Drop(m, 4)
             c == Take(m1, 2)
             m2 == Drop(m1, 2)
         IN IF m2[1] # LEN_START THEN Raise("SyntaxError: Wrong payload length start")
            ELSE LET m3 == Drop(m2, 1)
                     payloadLen == m3[1]
                     m4 == Drop(m3, 1)
                 IN IF payloadLen > 0
                    THEN IF m4 = <<>> THEN Raise("IndexError: index out of range")
                         ELSE IF m4[1] # PLD_START THEN Raise("SyntaxError: Wrong payload start")
                         ELSE Return(c, Take(m4, payloadLen))
                    ELSE Return(c, <<>>)

parseMsg_StartBeforeChecksum(m) ==
    IF Len(m) < 8 THEN Raise("SyntaxError: Message too short")
    ELSE IF Take(m, 4) # START \o <<CMD_START>> THEN Raise("SyntaxError: Wrong message start")
    ELSE IF calcChecksum(m) # 0 THEN Raise("ValueError: Wrong checksum")
    ELSE LET m1 == Drop(m, 4)
             c == Take(m1, 2)
             m2 == Drop(m1, 2)
         IN IF m2[1] # LEN_START THEN Raise("SyntaxError: Wrong payload length start")
            ELSE LET m3 == Drop(m2, 1)
                     payloadLen == m3[1]
                     m4 == Drop(m3, 1)
                 IN IF payloadLen > 0
                    THEN IF m4 = <<>> THEN Raise("IndexError: index out of range")
                         ELSE IF m4[1] # PLD_START THEN Raise("SyntaxError: Wrong payload start")
                         ELSE Return(c, Take(Drop(m4, 1), payloadLen))
                    ELSE Return(c, <<>>)

\* msgBytes[0] on an empty rest (a message of exactly 8 bytes that declares a
\* payload) raises IndexError; msgBytes[:payloadLen] never raises.
parseMsg(m) ==
    IF Len(m) < 8 THEN Raise("SyntaxError: Message too short")
    ELSE IF calcChecksum(m) # 0 THEN Raise("ValueError: Wrong checksum")
    ELSE IF Take(m, 4) # START \o <<CMD_START>> THEN Raise("SyntaxError: Wrong message start")
    ELSE LET m1 == Drop(m, 4)
             c == Take(m1, 2)
             m2 == Drop(m1, 2)
         IN IF m2[1] # LEN_START THEN Raise("SyntaxError: Wrong payload length start")
            ELSE LET m3 == Drop(m2, 1)
                     payloadLen == m3[1]
                     m4 == Drop(m3, 1)
                 IN IF payloadLen > 0
                    THEN IF m4 = <<>> THEN Raise("IndexError: index out of range")
                         ELSE IF m4[1] # PLD_START THEN Raise("SyntaxError: Wrong payload start")
                         ELSE Return(c, Take(Drop(m4, 1), payloadLen))
                    ELSE Return(c, <<>>)

\* PURPacket(msgBytes=m): cmdBytes is empty, so the elif branch decides
PURPacket(m) ==
    IF m # <<>> THEN parseMsg(m)
    ELSE Raise("AttributeError: Either command bytes or message bytes must be passed")

NoPacket == Raise("none")

(***************************************************************************)
(* Inputs of the codec runs.                                               *)
(***************************************************************************)
Cmds == {<<80, 1>>, <<3, 49>>}
CodecCmds == Cmds \cup {<<0, 255>>}
PldByteSet == {0, 3, 4, 82, 255}
CodecPlds == SeqsUpTo(PldByteSet, MaxPld)

IdleReader ==
    /\ inWaiting = <<>>
    /\ inFrames = <<>>
    /\ nEmit = 0
    /\ written = <<>>
    /\ op = "none"
    /\ check = FALSE
    /\ respBytes = <<>>
    /\ respFrames = <<>>
    /\ result = [kind |-> "none", err |-> "ok", code |-> 0, single |-> FALSE,
                 pkgs |-> <<>>, value |-> <<>>]

IdleTags ==
    /\ recPkgs = <<>>
    /\ tagResult = [kind |-> "none", err |-> "ok", collected |-> 0, expected |-> 0, tags |-> <<>>]

IdleCodec ==
    /\ pc = "idle"
    /\ cmdBytes = <<>>
    /\ pldBytes = <<>>
    /\ msgBytes = <<>>
    /\ tampered = FALSE
    /\ packet = NoPacket

InitCodec ==
    /\ pc = "new"
    /\ cmdBytes \in CodecCmds
    /\ pldBytes \in CodecPlds
    /\ msgBytes = <<>>
    /\ tampered = FALSE
    /\ packet = NoPacket
    /\ IdleReader
    /\ IdleTags

\* PURPacket(cmdBytes, pldBytes): self.msgBytes = self.createMsg(...)
Encode ==
    /\ pc = "new"
    /\ msgBytes' = createMsg(cmdBytes, pldBytes)
    /\ pc' = "wire"
    /\ UNCHANGED <<cmdBytes, pldBytes, tampered, packet, readerVars, tagVars>>

\* one bit of one byte of the message changes on the wire
FlipBit ==
    /\ pc = "wire"
    /\ ~tampered
    /\ \E i \in 1..Len(msgBytes), k \in 0..(ByteBits - 1) :
          msgBytes' = [msgBytes EXCEPT ![i] = Xor(@, 2^k)]
    /\ tampered' = TRUE
    /\ UNCHANGED <<pc, cmdBytes, pldBytes, packet, readerVars, tagVars>>

\* the last byte that makes the XOR of the whole message zero
Refix(m) == IF Len(m) < 2 THEN m
            ELSE Take(m, Len(m) - 1) \o <<calcChecksum(Take(m, Len(m) - 1))>>

\* one byte of the message is replaced on the wire, by a sender that may
\* recompute the checksum byte afterwards
Corrupt ==
    /\ pc = "wire"
    /\ ~tampered
    /\ \E i \in 1..Len(msgBytes), b \in PldByteSet, fix \in BOOLEAN :
          LET m == [msgBytes EXCEPT ![i] = b]
          IN msgBytes' = IF fix THEN Refix(m) ELSE m
    /\ tampered' = TRUE
    /\ UNCHANGED <<pc, cmdBytes, pldBytes, packet, readerVars, tagVars>>

\* only the first n bytes of the message arrive
Truncate ==
    /\ pc = "wire"
    /\ ~tampered
    /\ \E n \in 0..(Len(msgBytes) - 1), fix \in BOOLEAN :
          msgBytes' = IF fix THEN Refix(Take(msgBytes, n)) ELSE Take(msgBytes, n)
    /\ tampered' = TRUE
    /\ UNCHANGED <<pc, cmdBytes, pldBytes, packet, readerVars, tagVars>>

\* PURPacket(msgBytes=msgBytes)
Decode ==
    /\ pc = "wire"
    /\ packet' = PURPacket(msgBytes)
    /\ pc' = "done"
    /\ UNCHANGED <<cmdBytes, pldBytes, msgBytes, tampered, readerVars, tagVars>>

NextCodec == Encode \/ FlipBit \/ Decode

SpecCodec == InitCodec /\ [][NextCodec]_vars

NextDecode == Encode \/ Corrupt \/ Truncate \/ Decode

SpecDecode == InitCodec /\ [][NextDecode]_vars

(***************************************************************************)
(* reader.py: PURReader.send, checkResp, getParam                          *)
(***************************************************************************)
\* index of the first occurrence of sep in s, 0 when there is none
FindFirst(s, sep) ==
    LET at == {i \in 1..(Len(s) - Len(sep) + 1) : SubSeq(s, i, i + Len(sep) - 1) = sep}
    IN IF at = {} THEN 0 ELSE CHOOSE i \in at : \A j \in at : i <= j

\* bytes.split(sep): the pieces between the occurrences of sep, found left
\* to right without overlap
RECURSIVE Split(_, _)
Split(s, sep) ==
    LET i == FindFirst(s, sep)
    IN IF i = 0 THEN <<s>>
       ELSE <<SubSeq(s, 1, i - 1)>> \o Split(Drop(s, i - 1 + Len(sep)), sep)

\* the codes of retCodeDescr
retCodeDescr == {0, 1, 80, 81, 82, 83, 84, 85, 160, 161, 162, 163, 164}

Raised(e, c) == [kind |-> "raise", err |-> e, code |-> c, single |-> FALSE,
                 pkgs |-> <<>>, value |-> <<>>]
Returned(ps) == [kind |-> "return", err |-> "ok", code |-> 0, single |-> Len(ps) = 1,
                 pkgs |-> ps, value |-> <<>>]
Value(v) == [kind |-> "return", err |-> "ok", code |-> 0, single |-> FALSE,
             pkgs |-> <<>>, value |-> v]

Least(S) == CHOOSE i \in S : \A j \in S : i <= j

checkResp_AnyNonZero(respPkg) ==
    IF respPkg.pldBytes # <<>> /\ respPkg.pldBytes[1] # 0
    THEN "IOError" ELSE "ok"

\* "IOError" when checkResp raises for the packet, "ok" when it returns
checkResp(respPkg) ==
    IF respPkg.pldBytes # <<>> /\ respPkg.pldBytes[1] # 0
       /\ respPkg.pldBytes[1] \in retCodeDescr
    THEN "IOError" ELSE "ok"

respPkgs_SplitOnFrameStart(msg, resp) ==
    LET start == Take(msg, 4)
        parts == Tail(Split(resp, start))
    IN [i \in 1..Len(parts) |-> PURPacket(start \o parts[i])]

\* [PURPacket(msgBytes=start+part) for part in respBytes.split(start)[1:]],
\* each entry the packet or the exception its constructor raises
respPkgs(msg, resp) ==
    LET start == Take(msg, 6)
        parts == Tail(Split(resp, start))
    IN [i \in 1..Len(parts) |-> PURPacket(start \o parts[i])]

\* send(pkg, check) once pkg.msgBytes = msg is written and resp is read
send(msg, resp, chk) ==
    LET pkgs == respPkgs(msg, resp)
        bad == {i \in 1..Len(pkgs) : pkgs[i].err # "ok"}
        failed == {i \in 1..Len(pkgs) : checkResp(pkgs[i]) # "ok"}
    IN IF bad # {} THEN Raised(pkgs[Least(bad)].err, 0)
       ELSE IF chk /\ failed # {}
            THEN Raised(checkResp(pkgs[Least(failed)]), pkgs[Least(failed)].pldBytes[1])
       ELSE Returned(pkgs)

GET_PARAM == <<3, 49>>

\* struct.pack('!H', addr)
PackH(addr) == <<addr \div 256, addr % 256>>

\* getParam after its send: resp.pldBytes on a list raises AttributeError,
\* pldBytes[1] on fewer than 2 bytes raises IndexError
getParam(resp) ==
    IF resp.kind = "raise" THEN resp
    ELSE IF ~resp.single THEN Raised("AttributeError: 'list' object has no attribute 'pldBytes'", 0)
    ELSE LET pld == resp.pkgs[1].pldBytes
         IN IF Len(pld) < 2 THEN Raised("IndexError: index out of range", 0)
            ELSE [Value(Take(Drop(pld, 2), pld[2])) EXCEPT !.pkgs = resp.pkgs]

(***************************************************************************)
(* The reader device on the other end of the serial line.                  *)
(***************************************************************************)
\* payloads the device answers with: empty, a return code alone, and
\* parameter answers [code][length][value...]; and a payload that holds the
\* bytes R,F,E,0x01 and the command
RespPlds(c) ==
    {<<>>, <<82>>, <<2>>, <<0, 2, 7>>}
        \cup {<<0>> \o START \o <<CMD_START>> \o c}

NoiseBytes == {82}
Addrs == {34}

Init ==
    /\ IdleCodec
    /\ IdleReader
    /\ IdleTags

\* the device writes one message into the host's input buffer
DeviceRespond ==
    /\ nEmit < MaxEmit
    /\ \E c \in Cmds : \E p \in RespPlds(c) :
          /\ inWaiting' = inWaiting \o createMsg(c, p)
          /\ inFrames' = Append(inFrames, [kind |-> "frame", cmdBytes |-> c, pldBytes |-> p])
    /\ nEmit' = nEmit + 1
    /\ UNCHANGED <<written, op, check, respBytes, respFrames, result, codecVars, tagVars>>

\* a stray byte arrives in the host's input buffer
LineNoise ==
    /\ nEmit < MaxEmit
    /\ \E b \in NoiseBytes :
          /\ inWaiting' = Append(inWaiting, b)
          /\ inFrames' = Append(inFrames, [kind |-> "noise", cmdBytes |-> <<>>, pldBytes |-> <<b>>])
    /\ nEmit' = nEmit + 1
    /\ UNCHANGED <<written, op, check, respBytes, respFrames, result, codecVars, tagVars>>

\* send(PURPacket(c), chk): dev.read(1) returns b'' after the timeout when
\* nothing arrived, and dev.read(in_waiting) empties the buffer
Send ==
    \E c \in Cmds, chk \in BOOLEAN :
        LET msg == createMsg(c, <<>>)
        IN /\ written' = msg
           /\ respBytes' = inWaiting
           /\ respFrames' = inFrames
           /\ inWaiting' = <<>>
           /\ inFrames' = <<>>
           /\ op' = "send"
           /\ check' = chk
           /\ result' = send(msg, inWaiting, chk)
           /\ UNCHANGED <<nEmit, codecVars, tagVars>>

\* getParam(addr)
GetParam ==
    \E addr \in Addrs :
        LET msg == createMsg(GET_PARAM, PackH(addr))
        IN /\ written' = msg
           /\ respBytes' = inWaiting
           /\ respFrames' = inFrames
           /\ inWaiting' = <<>>
           /\ inFrames' = <<>>
           /\ op' = "getParam"
           /\ check' = TRUE
           /\ result' = getParam(send(msg, inWaiting, TRUE))
           /\ UNCHANGED <<nEmit, codecVars, tagVars>>

Next == DeviceRespond \/ LineNoise \/ Send \/ GetParam

Spec == Init /\ [][Next]_vars

\* the command of the last written message
SentCmd == SubSeq(written, 5, 6)

(***************************************************************************)
(* reader.py: PURReader.parseTagreports                                    *)
(***************************************************************************)
HexDigits == <<"0", "1", "2", "3", "4", "5", "6", "7", "8", "9", "A", "B", "C", "D", "E", "F">>

\* ''.join('{:02X}'.format(b) for b in bs), as the sequence of its characters
RECURSIVE HexString(_)
HexString(bs) ==
    IF bs = <<>> THEN <<>>
    ELSE <<HexDigits[(Head(bs) \div 16) + 1], HexDigits[(Head(bs) % 16) + 1]>>
            \o HexString(Tail(bs))

\* bytes.find(b): 0-based index of the first b, -1 when there is none
Find(s, b) ==
    LET at == {i \in 1..Len(s) : s[i] = b}
    IN IF at = {} THEN -1 ELSE Least(at) - 1

TagRaised(e, c, x) == [kind |-> "raise", err |-> e, collected |-> c, expected |-> x, tags |-> <<>>]
TagReturned(ts) == [kind |-> "return", err |-> "ok", collected |-> 0, expected |-> 0, tags |-> ts]

\* the inner loop: for _ in range(pkgIdCount), over the remaining tagsBytes
RECURSIVE parseTags(_, _, _)
parseTags(tagsBytes, n, tags) ==
    IF n = 0 THEN TagReturned(tags)
    ELSE LET t1 == Drop(tagsBytes, Find(tagsBytes, 1) + 1)
         IN IF t1 = <<>> THEN TagRaised("IndexError: index out of range", 0, 0)
            ELSE LET idLen == t1[1]
                     t2 == Drop(t1, 1)
                     tagID == HexString(Take(t2, idLen))
                     t3 == Drop(t2, idLen)
                 IN IF t3 = <<>> THEN TagRaised("IndexError: index out of range", 0, 0)
                    ELSE IF t3[1] # 2 THEN TagRaised("SyntaxError: Wrong RSSI start", 0, 0)
                    ELSE LET t4 == Drop(t3, 1)
                         IN IF Len(Take(t4, 2)) # 2
                            THEN TagRaised("struct.error: unpack requires a buffer of 2 bytes", 0, 0)
                            ELSE parseTags(Drop(t4, 2), n - 1,
                                    Append(tags, [id |-> tagID, rssiI |-> t4[2], rssiQ |-> t4[1]]))

\* the outer loop: for pkg in recPkgs, from packet i on, then the final
\* comparison of collectedIds with idCount
RECURSIVE tagreportsFrom(_, _, _, _, _)
tagreportsFrom(pkgs, i, tags, collectedIds, idCount) ==
    IF i > Len(pkgs)
    THEN IF collectedIds # idCount
         THEN TagRaised("IOError", collectedIds, idCount)
         ELSE TagReturned(tags)
    ELSE LET pld == pkgs[i]
         IN IF Len(Take(Drop(pld, 1), 2)) # 2
            THEN TagRaised("struct.error: unpack requires a buffer of 2 bytes", 0, 0)
            ELSE LET inner == parseTags(Drop(pld, 3), pld[3], tags)
                 IN IF inner.kind = "raise" THEN inner
                    ELSE tagreportsFrom(pkgs, i + 1, inner.tags, collectedIds + pld[3], pld[2])

\* parseTagreports(recPkgs), recPkgs given by the payloads of its packets
parseTagreports(pkgs) == tagreportsFrom(pkgs, 1, <<>>, 0, 0)

\* tag structures: [0x01][id length][id][0x02][RSSI Q][RSSI I], the second
\* one with a wrong RSSI marker
TagStructs == {<<1, 1, 170, 2, 5, 6>>, <<1, 1, 187, 9, 5, 6>>}

RECURSIVE Flatten(_)
Flatten(ss) == IF ss = <<>> THEN <<>> ELSE Head(ss) \o Flatten(Tail(ss))

\* inventory payloads: [return code][total tag count][tag count of this
\* packet][tag structures]
InventoryPlds ==
    {<<0, total, count>> \o Flatten(ts) :
        total \in 0..MaxTags, count \in 0..MaxTags, ts \in SeqsUpTo(TagStructs, MaxTags)}

InitTags ==
    /\ IdleCodec
    /\ IdleReader
    /\ IdleTags

\* one more inventory packet is handed over
ReceivePacket ==
    /\ tagResult.kind = "none"
    /\ Len(recPkgs) < MaxPkgs
    /\ \E pld \in InventoryPlds : recPkgs' = Append(recPkgs, pld)
    /\ UNCHANGED <<tagResult, codecVars, readerVars>>

\* parseTagreports(recPkgs)
ParseTagreports ==
    /\ tagResult.kind = "none"
    /\ tagResult' = parseTagreports(recPkgs)
    /\ UNCHANGED <<recPkgs, codecVars, readerVars>>

NextTags == ReceivePacket \/ ParseTagreports

SpecTags == InitTags /\ [][NextTags]_vars

(***************************************************************************)
(* Claims on the codec.                                                    *)
(***************************************************************************)
\* C1: decoding the message bytes that createMsg built from a 2-byte command
\* and a payload returns exactly that command and that payload.
C1_RoundTrip ==
    (pc = "done" /\ ~tampered) => packet = Return(cmdBytes, pldBytes)

C1_Witness ==
    /\ pc = "done"
    /\ ~tampered
    /\ Len(pldBytes) = MaxPld
    /\ packet.err = "ok"
    /\ packet.pldBytes = pldBytes

\* C2: the XOR of all bytes of a message built by createMsg, checksum byte
\* included, is 0.
C2_ChecksumZero ==
    (pc = "wire" /\ ~tampered) => calcChecksum(msgBytes) = 0

C2_Witness ==
    /\ pc = "wire"
    /\ ~tampered
    /\ pldBytes # <<>>
    /\ msgBytes[Len(msgBytes)] # 0
    /\ msgBytes[Len(msgBytes) - 1] = CHK_START

\* C7: a message built by createMsg with any single bit flipped is rejected
\* by the decoder with 'Wrong checksum'; it never decodes to a pair.
C7_TamperDetected ==
    (pc = "done" /\ tampered) => packet.err = "ValueError: Wrong checksum"

C7_Witness ==
    /\ pc = "done"
    /\ tampered
    /\ Take(msgBytes, 4) # START \o <<CMD_START>>
    /\ packet.err = "ValueError: Wrong checksum"

\* The error the decode checks name for a byte sequence, taken in their
\* fixed order; "none" when no check is violated.
FirstViolated(m) ==
    IF Len(m) < 8 THEN "SyntaxError: Message too short"
    ELSE IF calcChecksum(m) # 0 THEN "ValueError: Wrong checksum"
    ELSE IF SubSeq(m, 1, 4) # <<82, 70, 69, 1>> THEN "SyntaxError: Wrong message start"
    ELSE IF m[7] # 2 THEN "SyntaxError: Wrong payload length start"
    ELSE IF m[8] > 0 /\ Len(m) > 8 /\ m[9] # 3 THEN "SyntaxError: Wrong payload start"
    ELSE "none"

\* C10: decoding a byte sequence fails with the error of the first violated
\* check in the order too short, checksum, start, length marker, payload
\* marker; every sequence shorter than 8 bytes, the empty one included, is
\* rejected as too short.
C10_ValidationOrder ==
    (pc = "done" /\ FirstViolated(msgBytes) # "none")
        => packet.err = FirstViolated(msgBytes)

\* the five errors of the decoder
DecodeErrors ==
    {"SyntaxError: Message too short", "ValueError: Wrong checksum",
     "SyntaxError: Wrong message start", "SyntaxError: Wrong payload length start",
     "SyntaxError: Wrong payload start"}

\* C11: whenever the decoder accepts a byte sequence, the payload it returns
\* has exactly as many bytes as the length byte at offset 7 declares; a
\* sequence of 8 or more bytes is either accepted so or fails with one of the
\* five decode errors.
C11_PayloadLength ==
    (pc = "done" /\ Len(msgBytes) >= 8)
        => /\ packet.err = "ok" => Len(packet.pldBytes) = msgBytes[8]
           /\ packet.err \in DecodeErrors \cup {"ok"}

(***************************************************************************)
(* Claims on the command session.                                          *)
(***************************************************************************)
\* the bytes the last send read are one or more messages of the device, all
\* carrying the command that was sent
OnlyFramesOfSentCmd ==
    /\ Len(respFrames) >= 1
    /\ \A i \in 1..Len(respFrames) :
          respFrames[i].kind = "frame" /\ respFrames[i].cmdBytes = SentCmd

\* C3: when the bytes read by send are k >= 1 valid messages of the sent
\* command, with any payloads, send returns exactly those k messages in
\* their order (the message itself when k = 1, the list otherwise).
C3_StreamSplitting ==
    (op = "send" /\ ~check /\ OnlyFramesOfSentCmd)
        => /\ result.kind = "return"
           /\ result.pkgs = [i \in 1..Len(respFrames) |->
                                Return(respFrames[i].cmdBytes, respFrames[i].pldBytes)]
           /\ result.single = (Len(respFrames) = 1)

\* some decoded response has a payload that starts with a non-zero code of
\* the return code catalog
Flagged(pkgs) ==
    \E i \in 1..Len(pkgs) :
        /\ pkgs[i].pldBytes # <<>>
        /\ pkgs[i].pldBytes[1] # 0
        /\ pkgs[i].pldBytes[1] \in retCodeDescr

C6_ExactLength ==
    (op = "getParam" /\ result.kind = "return")
        => Len(result.value) = result.pkgs[1].pldBytes[2]

\* C8: when the read times out without any byte, send raises a "no
\* response" error; it does not return.
C8_NoResponse ==
    (op = "send" /\ respBytes = <<>>) => result.kind = "raise"

\* positions in the bytes read where the 6 bytes R,F,E,0x01,<cmd1>,<cmd2>
\* of the sent message occur
EchoAt ==
    {i \in 1..Len(respBytes) :
        i + 5 <= Len(respBytes)
        /\ SubSeq(respBytes, i, i + 5) = <<82, 70, 69, 1>> \o SentCmd}

\* C9: every message a send returns carries the command that was sent,
\* whatever else is in the buffer; there is one message per occurrence of
\* the command echo, so the bytes before the first occurrence yield none.
C9_Correlation ==
    (op = "send" /\ result.kind = "return")
        => /\ \A i \in 1..Len(result.pkgs) : result.pkgs[i].cmdBytes = SentCmd
           /\ Len(result.pkgs) = Cardinality(EchoAt)

C9_Witness ==
    /\ op = "send"
    /\ result.kind = "return"
    /\ Len(result.pkgs) = 1
    /\ Len(respFrames) = 2
    /\ respFrames[1].kind = "frame"
    /\ respFrames[1].cmdBytes # SentCmd
    /\ result.pkgs[1].cmdBytes = SentCmd

(***************************************************************************)
(* Claims on the tag reports.                                              *)
(***************************************************************************)
RECURSIVE SumCounts(_)
SumCounts(pkgs) == IF pkgs = <<>> THEN 0 ELSE Head(pkgs)[3] + SumCounts(Tail(pkgs))

\* C5: parseTagreports over one or more messages returns only if the tag
\* counts of all messages add up to the total declared in the first message;
\* the IncompleteInventory error reports the sum against that total.
C5_TagAccounting ==
    (tagResult.kind # "none" /\ recPkgs # <<>> /\ \A i \in 1..Len(recPkgs) : Len(recPkgs[i]) >= 3)
        => /\ tagResult.kind = "return" => SumCounts(recPkgs) = recPkgs[1][2]
           /\ tagResult.err = "IOError" =>
                 /\ tagResult.collected = SumCounts(recPkgs)
                 /\ tagResult.expected = recPkgs[1][2]

====
